---- MODULE Spec2Model ----
(***************************************************************************)
(* Model of pallets/waste-management/src/lib.rs: the storage items         *)
(* WasteDataCount, WasteDataMap and WasteDataByStatus, and the two         *)
(* dispatchables create_waste_data and update_waste_status.                *)
(*                                                                         *)
(* Each dispatchable runs to completion as one action.  A dispatchable     *)
(* declared under #[pallet::call] is executed inside a storage layer: when *)
(* it returns Err, every storage write and deposited event of the call is  *)
(* discarded.  The body of each call is therefore modelled as a sequence   *)
(* of steps on a working copy of the storage (a record with the fields     *)
(* count, map, index and events), and Commit decides what reaches storage. *)
(***************************************************************************)
EXTENDS Integers, Sequences, FiniteSets

VARIABLES WasteDataCount, WasteDataMap, WasteDataByStatus, events, last

vars == <<WasteDataCount, WasteDataMap, WasteDataByStatus, events, last>>

(***************************************************************************)
(* Bounds.                                                                 *)
(***************************************************************************)
\* The largest value of the counter's integer type.  The pallet uses u64;
\* the model keeps the type's behaviour (checked_add fails at the maximum)
\* at a width small enough to reach the maximum.
U64Max == 2

\* Calls that deposit an event are explored while the event log is shorter
\* than this.
MaxEvents == 3

(***************************************************************************)
(* Types.                                                                  *)
(***************************************************************************)
WasteStatus == {"Reported", "Collected", "Transported", "Utilized"}

AccountId == {"alice", "bob"}

ReportId == 0..U64Max

\* RawOrigin: Signed(account), Root or None.
Origin ==
  [kind : {"Signed"}, who : AccountId] \cup [kind : {"Root", "None"}, who : {"-"}]

\* The caller-supplied arguments of create_waste_data explored by the model:
\* <<waste_type, waste_amount, location_x, location_y>>.
CreateArgs == {<<1, 100, 5, 6>>, <<2, 200, 7, 8>>}

\* The report ids passed to update_waste_status.
UpdateIds == ReportId

\* The absent status, in the fields of a call record that a call leaves unset.
None == "None"

\* Option / Result values: Some(v) or Ok(v), and None or Err.
Some(v) == [some |-> TRUE, val |-> v]

Nothing(v) == [some |-> FALSE, val |-> v]

(***************************************************************************)
(* Helpers of the runtime the pallet calls.                                *)
(***************************************************************************)
\* ensure_signed that lets every origin through, with the origin's account
\* field as the caller.
ensure_signed_AnyOrigin(origin) == Some(origin.who)

\* ensure_signed: Ok(account) for a signed origin, Err(BadOrigin) otherwise.
ensure_signed(origin) ==
  IF origin.kind = "Signed" THEN Some(origin.who) ELSE Nothing("-")

\* checked_add written as wrapping_add: the sum is reduced modulo 2^w.
checked_add_Wrapping(a, b) == Some((a + b) % (U64Max + 1))

\* checked_add written as saturating_add: the sum stops at the maximum.
checked_add_Saturating(a, b) ==
  IF a + b > U64Max THEN Some(U64Max) ELSE Some(a + b)

\* u64::checked_add: None when the sum does not fit the type.
checked_add(a, b) ==
  IF a + b > U64Max THEN Nothing(0) ELSE Some(a + b)

\* StorageMap::insert: store v under k, replacing any value there.
insert(m, k, v) ==
  [x \in (DOMAIN m) \cup {k} |-> IF x = k THEN v ELSE m[x]]

\* remove written as a prefix removal: every entry whose key starts with the
\* first component of k is deleted.
remove_Prefix(m, k) ==
  [x \in {y \in DOMAIN m : y[1] # k[1]} |-> m[x]]

\* StorageMap::remove: delete the entry under k, if any.
remove(m, k) ==
  [x \in (DOMAIN m) \ {k} |-> m[x]]

\* NewWasteData with the reporter left at the default account instead of the
\* signed caller.
NewWasteData_DefaultReporter(report_id, waste_type, waste_amount, location_x, location_y, reporter) ==
  [report_id |-> report_id,
   waste_type |-> waste_type,
   waste_amount |-> waste_amount,
   status |-> "Reported",
   location_x |-> location_x,
   location_y |-> location_y,
   reporter |-> "-"]

\* NewWasteData with the report_id field left at its default, 0.
NewWasteData_ZeroId(report_id, waste_type, waste_amount, location_x, location_y, reporter) ==
  [report_id |-> 0,
   waste_type |-> waste_type,
   waste_amount |-> waste_amount,
   status |-> "Reported",
   location_x |-> location_x,
   location_y |-> location_y,
   reporter |-> reporter]

\* NewWasteData with the two coordinates exchanged.
NewWasteData_SwappedLocation(report_id, waste_type, waste_amount, location_x, location_y, reporter) ==
  [report_id |-> report_id,
   waste_type |-> waste_type,
   waste_amount |-> waste_amount,
   status |-> "Reported",
   location_x |-> location_y,
   location_y |-> location_x,
   reporter |-> reporter]

\* The WasteData literal built by create_waste_data.
NewWasteData(report_id, waste_type, waste_amount, location_x, location_y, reporter) ==
  [report_id |-> report_id,
   waste_type |-> waste_type,
   waste_amount |-> waste_amount,
   status |-> "Reported",
   location_x |-> location_x,
   location_y |-> location_y,
   reporter |-> reporter]

\* Event::WasteDataCreated { report_id, reporter }
WasteDataCreated(report_id, reporter) ==
  [event |-> "WasteDataCreated", report_id |-> report_id, reporter |-> reporter]

\* Event::WasteStatusUpdated { report_id, operator }
WasteStatusUpdated(report_id, operator) ==
  [event |-> "WasteStatusUpdated", report_id |-> report_id, operator |-> operator]

(***************************************************************************)
(* The storage as a call sees it, and the outcome of a call.               *)
(***************************************************************************)
\* The working copy a call starts from.  trace lists the storage accesses of
\* the call, in order; it is not storage.
Store ==
  [count |-> WasteDataCount, map |-> WasteDataMap,
   index |-> WasteDataByStatus, events |-> events, trace |-> <<>>]

\* One storage access of the running call.
Touch(st, access) == [st EXCEPT !.trace = Append(@, access)]

Outcome(st, result, report_id, old_status) ==
  [st |-> st, result |-> result, report_id |-> report_id, old_status |-> old_status]

\* deposit_event: append to the event log.
deposit_event(st, e) ==
  Touch([st EXCEPT !.events = Append(@, e)], "deposit_event")

(***************************************************************************)
(* create_waste_data                                                       *)
(***************************************************************************)
\* NextReportId that steps by two.
NextReportId_SkipOne(st) == checked_add(st.count, 2)

\* WasteDataCount::get().checked_add(1)
NextReportId(st) == checked_add(st.count, 1)

\* PutCount with the new value never stored: the counter keeps its old value.
PutCount_Forgotten(st, report_id) == Touch(st, "WasteDataCount::put")

\* WasteDataCount::put(report_id)
PutCount(st, report_id) ==
  Touch([st EXCEPT !.count = report_id], "WasteDataCount::put")

\* IsVacant with the test inverted: ensure!(waste_data_opt.is_some(), ..).
IsVacant_Inverted(map, report_id) == report_id \in DOMAIN map

\* The closure of WasteDataMap::try_mutate_exists(report_id, ...):
\* ensure!(waste_data_opt.is_none(), DuplicateReport).
IsVacant(map, report_id) == report_id \notin DOMAIN map

\* *waste_data_opt = Some(waste_data.clone()), written when the closure
\* returns Ok.
CreateMapWrite(st, report_id, waste_data) ==
  Touch([st EXCEPT !.map = insert(@, report_id, waste_data)], "WasteDataMap::put")

\* CreateIndexWrite keyed by the id before the new one.
CreateIndexWrite_PreviousId(st, report_id, waste_data) ==
  Touch([st EXCEPT !.index = insert(@, <<"Reported", report_id - 1>>, waste_data)],
        "WasteDataByStatus::insert")

\* WasteDataByStatus::insert((Reported, report_id), waste_data.clone())
CreateIndexWrite(st, report_id, waste_data) ==
  Touch([st EXCEPT !.index = insert(@, <<"Reported", report_id>>, waste_data)],
        "WasteDataByStatus::insert")

\* Self::deposit_event(Event::WasteDataCreated { report_id, reporter })
CreateEmit(st, report_id, reporter) ==
  deposit_event(st, WasteDataCreated(report_id, reporter))

\* create_body with the two inserts exchanged: the Status Index is written
\* before the Record Store.
create_body_IndexFirst(st, origin, waste_type, waste_amount, location_x, location_y) ==
  LET signed == ensure_signed(origin)
      reporter == signed.val
  IN
  IF ~signed.some THEN Outcome(st, "BadOrigin", 0, None)
  ELSE
    LET st0 == Touch(st, "WasteDataCount::get")
        next_id == NextReportId(st0)
        report_id == next_id.val
    IN
    IF ~next_id.some THEN Outcome(st0, "BoundsOverflow", 0, None)
    ELSE
      LET st1 == PutCount(st0, report_id)
          waste_data == NewWasteData(report_id, waste_type, waste_amount,
                                     location_x, location_y, reporter)
          st2 == CreateIndexWrite(st1, report_id, waste_data)
          st3 == Touch(st2, "WasteDataMap::get")
      IN
      IF ~IsVacant(st3.map, report_id)
      THEN Outcome(st3, "DuplicateReport", report_id, None)
      ELSE
        LET st4 == CreateMapWrite(st3, report_id, waste_data)
            st5 == CreateEmit(st4, report_id, reporter)
        IN Outcome(st5, "Ok", report_id, None)

\* The body of create_waste_data, from the storage st.
create_body(st, origin, waste_type, waste_amount, location_x, location_y) ==
  LET signed == ensure_signed(origin)
      reporter == signed.val
  IN
  IF ~signed.some THEN Outcome(st, "BadOrigin", 0, None)
  ELSE
    LET st0 == Touch(st, "WasteDataCount::get")
        next_id == NextReportId(st0)
        report_id == next_id.val
    IN
    IF ~next_id.some THEN Outcome(st0, "BoundsOverflow", 0, None)
    ELSE
      LET st1 == PutCount(st0, report_id)
          waste_data == NewWasteData(report_id, waste_type, waste_amount,
                                     location_x, location_y, reporter)
          st2 == Touch(st1, "WasteDataMap::get")
      IN
      IF ~IsVacant(st2.map, report_id)
      THEN Outcome(st2, "DuplicateReport", report_id, None)
      ELSE
        LET st3 == CreateMapWrite(st2, report_id, waste_data)
            st4 == CreateIndexWrite(st3, report_id, waste_data)
            st5 == CreateEmit(st4, report_id, reporter)
        IN Outcome(st5, "Ok", report_id, None)

(***************************************************************************)
(* update_waste_status                                                     *)
(***************************************************************************)
\* The entry a value-query read would give for an absent key.
DefaultWasteData ==
  [report_id |-> 0, waste_type |-> 0, waste_amount |-> 0, status |-> "Reported",
   location_x |-> 0, location_y |-> 0, reporter |-> "-"]

\* Lookup that takes the default entry when the key is absent, instead of
\* failing with ReportNotFound.
Lookup_OrDefault(map, report_id) ==
  IF report_id \in DOMAIN map THEN Some(map[report_id]) ELSE Some(DefaultWasteData)

\* WasteDataMap::try_mutate(report_id, ...) reads the entry, and the closure
\* takes it with waste_data.as_mut().ok_or(ReportNotFound).
Lookup(map, report_id) ==
  IF report_id \in DOMAIN map THEN Some(map[report_id]) ELSE Nothing(<<>>)

\* The place of a status in the order Reported, Collected, Transported,
\* Utilized.
StatusRank(status) ==
  CASE status = "Reported" -> 0
    [] status = "Collected" -> 1
    [] status = "Transported" -> 2
    [] OTHER -> 3

\* SetStatus that only moves a report forward: a status earlier in the
\* lifecycle than the current one is ignored.
SetStatus_ForwardOnly(waste_data, new_status) ==
  IF StatusRank(new_status) >= StatusRank(waste_data.status)
  THEN [waste_data EXCEPT !.status = new_status]
  ELSE waste_data

\* waste_data.status = new_status.clone(), on the closure's copy of the entry.
SetStatus(waste_data, new_status) ==
  [waste_data EXCEPT !.status = new_status]

\* UpdateIndexWrite with the old entry left in place: the insert under the
\* new status is made and the remove under the old status is not.
UpdateIndexWrite_KeepOld(st, old_status, new_status, report_id, waste_data) ==
  IF old_status # new_status
  THEN Touch([st EXCEPT !.index = insert(@, <<new_status, report_id>>, waste_data)],
             "WasteDataByStatus::insert")
  ELSE st

\* UpdateIndexWrite with the entry cloned before the status was assigned: the
\* index receives the record with its old status.
UpdateIndexWrite_StaleClone(st, old_status, new_status, report_id, waste_data) ==
  IF old_status # new_status
  THEN LET st1 == Touch([st EXCEPT !.index = remove(@, <<old_status, report_id>>)],
                        "WasteDataByStatus::remove")
       IN Touch([st1 EXCEPT !.index =
                   insert(@, <<new_status, report_id>>,
                          [waste_data EXCEPT !.status = old_status])],
                "WasteDataByStatus::insert")
  ELSE st

\* UpdateIndexWrite with the test inverted: the index is rewritten when the
\* status stays the same and left alone when it changes.
UpdateIndexWrite_Inverted(st, old_status, new_status, report_id, waste_data) ==
  IF old_status = new_status
  THEN LET st1 == Touch([st EXCEPT !.index = remove(@, <<old_status, report_id>>)],
                        "WasteDataByStatus::remove")
       IN Touch([st1 EXCEPT !.index = insert(@, <<new_status, report_id>>, waste_data)],
                "WasteDataByStatus::insert")
  ELSE st

\* UpdateIndexWrite without the test: the entry is removed and inserted again
\* on every update.
UpdateIndexWrite_Unconditional(st, old_status, new_status, report_id, waste_data) ==
  LET st1 == Touch([st EXCEPT !.index = remove(@, <<old_status, report_id>>)],
                   "WasteDataByStatus::remove")
  IN Touch([st1 EXCEPT !.index = insert(@, <<new_status, report_id>>, waste_data)],
           "WasteDataByStatus::insert")

\* if old_status != new_status {
\*     WasteDataByStatus::remove((old_status, report_id));
\*     WasteDataByStatus::insert((new_status, report_id), waste_data.clone()); }
UpdateIndexWrite(st, old_status, new_status, report_id, waste_data) ==
  IF old_status # new_status
  THEN LET st1 == Touch([st EXCEPT !.index = remove(@, <<old_status, report_id>>)],
                        "WasteDataByStatus::remove")
       IN Touch([st1 EXCEPT !.index = insert(@, <<new_status, report_id>>, waste_data)],
                "WasteDataByStatus::insert")
  ELSE st

\* UpdateMapWrite that stores nothing: the closure changed a copy, and the
\* entry keeps its old status.
UpdateMapWrite_NotPersisted(st, report_id, waste_data) ==
  Touch(st, "WasteDataMap::put")

\* try_mutate writes the closure's copy back when the closure returns Ok.
UpdateMapWrite(st, report_id, waste_data) ==
  Touch([st EXCEPT !.map = insert(@, report_id, waste_data)], "WasteDataMap::put")

\* UpdateEmit that names the report's reporter as the operator.
UpdateEmit_ReporterAsOperator(st, report_id, operator) ==
  deposit_event(st, WasteStatusUpdated(report_id, st.map[report_id].reporter))

\* Self::deposit_event(Event::WasteStatusUpdated { report_id, operator })
UpdateEmit(st, report_id, operator) ==
  deposit_event(st, WasteStatusUpdated(report_id, operator))

\* The body of update_waste_status, from the storage st.
update_body(st, origin, report_id, new_status) ==
  LET signed == ensure_signed(origin)
      operator == signed.val
  IN
  IF ~signed.some THEN Outcome(st, "BadOrigin", report_id, None)
  ELSE
    LET st0 == Touch(st, "WasteDataMap::get")
        found == Lookup(st0.map, report_id)
    IN
    IF ~found.some THEN Outcome(st0, "ReportNotFound", report_id, None)
    ELSE
      LET old_status == found.val.status
          waste_data == SetStatus(found.val, new_status)
          st1 == UpdateIndexWrite(st0, old_status, new_status, report_id, waste_data)
          st2 == UpdateMapWrite(st1, report_id, waste_data)
          st3 == UpdateEmit(st2, report_id, operator)
      IN Outcome(st3, "Ok", report_id, old_status)

(***************************************************************************)
(* Dispatch.                                                               *)
(***************************************************************************)
\* The storage layer around a dispatchable: the working copy is committed
\* when the call returns Ok and discarded when it returns Err.
Commit(before, out) ==
  IF out.result = "Ok" THEN out.st ELSE before

Apply(st) ==
  /\ WasteDataCount' = st.count
  /\ WasteDataMap' = st.map
  /\ WasteDataByStatus' = st.index
  /\ events' = st.events

\* The record of the most recent call: the dispatchable, its result, the
\* storage accesses it made and, for a call that returned Ok, the values it
\* worked with (the signed caller, the arguments of a create, the report id,
\* the status before and after).  A call that returned Err records its name,
\* its error and its accesses only.
CallRecord(op, result, trace, who, args, report_id, old_status, new_status) ==
  IF result = "Ok"
  THEN [op |-> op, result |-> result, trace |-> trace, who |-> who,
        args |-> args, report_id |-> report_id, old_status |-> old_status,
        new_status |-> new_status]
  ELSE [op |-> op, result |-> result, trace |-> trace, who |-> "-",
        args |-> <<>>, report_id |-> 0, old_status |-> None,
        new_status |-> None]

Init ==
  /\ WasteDataCount = 0
  /\ WasteDataMap = <<>>
  /\ WasteDataByStatus = <<>>
  /\ events = <<>>
  /\ last = CallRecord("none", None, <<>>, "-", <<>>, 0, None, None)

create_waste_data(origin, waste_type, waste_amount, location_x, location_y) ==
  LET out == create_body(Store, origin, waste_type, waste_amount,
                         location_x, location_y)
  IN
  /\ out.result = "Ok" => Len(events) < MaxEvents
  /\ Apply(Commit(Store, out))
  /\ last' = CallRecord("create_waste_data", out.result, out.st.trace, origin.who,
                        <<waste_type, waste_amount, location_x, location_y>>,
                        out.report_id, None, "Reported")

update_waste_status(origin, report_id, new_status) ==
  LET out == update_body(Store, origin, report_id, new_status) IN
  /\ out.result = "Ok" => Len(events) < MaxEvents
  /\ Apply(Commit(Store, out))
  /\ last' = CallRecord("update_waste_status", out.result, out.st.trace,
                        origin.who, <<>>, report_id, out.old_status, new_status)

Next ==
  \/ \E origin \in Origin, a \in CreateArgs :
       create_waste_data(origin, a[1], a[2], a[3], a[4])
  \/ \E origin \in Origin, report_id \in UpdateIds, new_status \in WasteStatus :
       update_waste_status(origin, report_id, new_status)

Spec == Init /\ [][Next]_vars

(***************************************************************************)
(* Properties.                                                             *)
(***************************************************************************)
\* The keys of the Status Index that belong to report id.
IndexKeysOf(id) == {k \in DOMAIN WasteDataByStatus : k[2] = id}

\* The last call returned Ok and was the named dispatchable.
LastOk(op) == last.op = op /\ last.result = "Ok"

\* C1 (index agreement): every report id present in WasteDataMap has exactly
\* one entry in WasteDataByStatus, and its key is (S, id) where S is the
\* status stored in the WasteDataMap record; the id appears under no other
\* status.
C1_IndexAgreement ==
  \A id \in DOMAIN WasteDataMap :
    IndexKeysOf(id) = {<<WasteDataMap[id].status, id>>}

\* Two reports are stored under different statuses, the last call having
\* moved one of them.
C1_Witness ==
  /\ LastOk("update_waste_status")
  /\ last.old_status # last.new_status
  /\ \E i, j \in DOMAIN WasteDataMap :
       i # j /\ WasteDataMap[i].status # WasteDataMap[j].status

\* C2 (content agreement): the record under every WasteDataByStatus entry
\* (s, id) equals, field for field, the record under id in WasteDataMap.
C2_ContentAgreement ==
  \A k \in DOMAIN WasteDataByStatus :
    /\ k[2] \in DOMAIN WasteDataMap
    /\ LET i == WasteDataByStatus[k]
           r == WasteDataMap[k[2]]
       IN /\ i.report_id = r.report_id
          /\ i.waste_type = r.waste_type
          /\ i.waste_amount = r.waste_amount
          /\ i.status = r.status
          /\ i.location_x = r.location_x
          /\ i.location_y = r.location_y
          /\ i.reporter = r.reporter

\* Two reports with different contents are indexed, one of them moved to
\* another status by someone other than its reporter.
C2_Witness ==
  /\ LastOk("update_waste_status")
  /\ last.old_status # last.new_status
  /\ last.report_id \in DOMAIN WasteDataMap
  /\ last.who # WasteDataMap[last.report_id].reporter
  /\ \E i, j \in DOMAIN WasteDataMap :
       WasteDataMap[i].waste_type # WasteDataMap[j].waste_type

\* C3 (no orphan index entries): a key (status, id) is in WasteDataByStatus
\* only if WasteDataMap holds a record under id whose status is that status.
C3_NoOrphans ==
  \A k \in DOMAIN WasteDataByStatus :
    /\ k[2] \in DOMAIN WasteDataMap
    /\ WasteDataMap[k[2]].status = k[1]

\* A report has been moved twice: it left Reported earlier and the last call
\* moved it again, so two former keys of it are gone from the index.
C3_Witness ==
  /\ LastOk("update_waste_status")
  /\ last.old_status \notin {"Reported", last.new_status}
  /\ last.new_status # "Reported"
  /\ <<last.old_status, last.report_id>> \notin DOMAIN WasteDataByStatus
  /\ <<"Reported", last.report_id>> \notin DOMAIN WasteDataByStatus


\* The WasteDataCreated events deposited so far, in order: one per report
\* ever created.
CreatedEvents == SelectSeq(events, LAMBDA e : e.event = "WasteDataCreated")

\* C4 (identifier uniqueness): the report ids assigned by the successful
\* create_waste_data calls, in order of creation, are strictly increasing,
\* hence pairwise distinct: no id is assigned to two reports.
C4_IdsStrictlyIncreasing ==
  \A i, j \in 1..Len(CreatedEvents) :
    i < j => CreatedEvents[i].report_id < CreatedEvents[j].report_id

\* Two reports were created with a status update between the two creates,
\* and the last call failed.
C4_Witness ==
  /\ Len(events) = 3
  /\ events[1].event = "WasteDataCreated"
  /\ events[2].event = "WasteStatusUpdated"
  /\ events[3].event = "WasteDataCreated"
  /\ last.result \notin {"Ok", None}

\* C5 (counter law): WasteDataCount starts at 0, never decreases, and always
\* equals the number of reports ever created; a successful create_waste_data
\* assigns the id (count before the call) + 1, stores the report under it
\* and leaves the count at that id.
C5_CounterLaw ==
  /\ WasteDataCount = 0
  /\ [](WasteDataCount = Len(CreatedEvents))
  /\ [][/\ WasteDataCount' >= WasteDataCount
        /\ (last'.op = "create_waste_data" /\ last'.result = "Ok") =>
             /\ last'.report_id = WasteDataCount + 1
             /\ WasteDataCount' = last'.report_id
             /\ DOMAIN WasteDataMap' = DOMAIN WasteDataMap \cup {WasteDataCount + 1}
             /\ WasteDataCount + 1 \notin DOMAIN WasteDataMap]_vars

\* Two sequential creates on the empty store: ids 1 and 2, count 2.
C5_Witness ==
  /\ LastOk("create_waste_data")
  /\ last.report_id = 2
  /\ WasteDataCount = 2
  /\ DOMAIN WasteDataMap = {1, 2}
  /\ Len(events) = 2

\* The signed and the unsigned origins.
SignedOrigin == {o \in Origin : o.kind = "Signed"}

UnsignedOrigin == Origin \ SignedOrigin

\* The storage and the event log are as they were before the step.
NothingChanged ==
  UNCHANGED <<WasteDataCount, WasteDataMap, WasteDataByStatus, events>>

\* C6 (ReportNotFound leaves state unchanged): in every reachable state,
\* update_waste_status by any signed caller on any report id absent from
\* WasteDataMap returns ReportNotFound and commits nothing; and a step that
\* is such a call leaves WasteDataCount, WasteDataMap and WasteDataByStatus
\* as they were (no entry appears under the id, the index is untouched) and
\* deposits no event.
C6_ReportNotFoundUnchanged ==
  /\ [](\A origin \in SignedOrigin, report_id \in UpdateIds, new_status \in WasteStatus :
          report_id \notin DOMAIN WasteDataMap =>
            LET out == update_body(Store, origin, report_id, new_status) IN
            /\ out.result = "ReportNotFound"
            /\ Commit(Store, out) = Store)
  /\ [][(last'.op = "update_waste_status" /\ last'.result = "ReportNotFound")
          => NothingChanged]_vars

\* An update failed with ReportNotFound on a store that holds a report.
C6_Witness ==
  /\ last.op = "update_waste_status"
  /\ last.result = "ReportNotFound"
  /\ DOMAIN WasteDataMap # {}
  /\ DOMAIN WasteDataByStatus # {}

\* C7 (BoundsOverflow leaves state unchanged): in every reachable state
\* where WasteDataCount is the maximum of its type, create_waste_data by any
\* signed caller returns BoundsOverflow and commits nothing; and a step that
\* is such a call leaves the count (not wrapped), WasteDataMap and
\* WasteDataByStatus as they were and deposits no event.
C7_BoundsOverflowUnchanged ==
  /\ [](\A origin \in SignedOrigin, a \in CreateArgs :
          WasteDataCount = U64Max =>
            LET out == create_body(Store, origin, a[1], a[2], a[3], a[4]) IN
            /\ out.result = "BoundsOverflow"
            /\ Commit(Store, out) = Store)
  /\ [][(last'.op = "create_waste_data" /\ last'.result = "BoundsOverflow")
          => (NothingChanged /\ WasteDataCount' = U64Max)]_vars

\* A create failed with BoundsOverflow: the count is at the maximum and every
\* id up to it is stored.
C7_Witness ==
  /\ last.op = "create_waste_data"
  /\ last.result = "BoundsOverflow"
  /\ WasteDataCount = U64Max
  /\ DOMAIN WasteDataMap = 1..U64Max

\* C8 (Unauthorized leaves state unchanged): in every reachable state, both
\* create_waste_data and update_waste_status called with an origin that is
\* not signed fail with no storage access made and commit nothing; and a
\* step that is such a call leaves WasteDataCount, WasteDataMap and
\* WasteDataByStatus as they were and deposits no event.
C8_UnauthorizedUnchanged ==
  /\ [](\A origin \in UnsignedOrigin :
          /\ \A a \in CreateArgs :
               LET out == create_body(Store, origin, a[1], a[2], a[3], a[4]) IN
               /\ out.result = "BadOrigin"
               /\ out.st = Store
          /\ \A report_id \in UpdateIds, new_status \in WasteStatus :
               LET out == update_body(Store, origin, report_id, new_status) IN
               /\ out.result = "BadOrigin"
               /\ out.st = Store)
  /\ [][last'.result = "BadOrigin" => (NothingChanged /\ last'.trace = <<>>)]_vars

\* An unsigned call was rejected on a store that holds reports in the map
\* and in the index.
C8_Witness ==
  /\ last.result = "BadOrigin"
  /\ last.op \in {"create_waste_data", "update_waste_status"}
  /\ WasteDataCount > 0
  /\ DOMAIN WasteDataMap # {}
  /\ DOMAIN WasteDataByStatus # {}
  /\ events # <<>>

\* The accesses of the last call that write the Status Index.
IndexWrites(trace) ==
  SelectSeq(trace, LAMBDA x : x \in {"WasteDataByStatus::remove",
                                     "WasteDataByStatus::insert"})

\* C9 (idempotent no-op): in every reachable state, update_waste_status by
\* any signed caller of an existing report to the status it already has
\* returns Ok; and a step that is such a call makes no remove and no insert
\* on WasteDataByStatus, leaves the index, the WasteDataMap record and the
\* count as they were, and deposits exactly one WasteStatusUpdated event.
C9_IdempotentNoOp ==
  /\ [](\A origin \in SignedOrigin, report_id \in DOMAIN WasteDataMap :
          update_body(Store, origin, report_id,
                      WasteDataMap[report_id].status).result = "Ok")
  /\ [][(/\ last'.op = "update_waste_status"
         /\ last'.result = "Ok"
         /\ last'.report_id \in DOMAIN WasteDataMap
         /\ WasteDataMap[last'.report_id].status = last'.new_status)
        => (/\ IndexWrites(last'.trace) = <<>>
            /\ WasteDataByStatus' = WasteDataByStatus
            /\ WasteDataMap' = WasteDataMap
            /\ WasteDataCount' = WasteDataCount
            /\ events' = Append(events,
                                WasteStatusUpdated(last'.report_id, last'.who)))]_vars

\* The same update was made twice in a row: the report was moved to
\* Collected, and the last call set it to Collected again.
C9_Witness ==
  /\ LastOk("update_waste_status")
  /\ last.old_status = "Collected"
  /\ last.new_status = "Collected"
  /\ Len(events) = 3
  /\ events[2] = WasteStatusUpdated(last.report_id, last.who)
  /\ events[3] = WasteStatusUpdated(last.report_id, last.who)
  /\ <<"Collected", last.report_id>> \in DOMAIN WasteDataByStatus

\* C10 (immutable reporter): a successful create_waste_data stores, in
\* WasteDataMap and in WasteDataByStatus, a report whose reporter is the
\* signed caller of that call; and no step, whoever the caller, changes the
\* reporter of a stored report in WasteDataMap or in WasteDataByStatus.
C10_ImmutableReporter ==
  [][/\ (last'.op = "create_waste_data" /\ last'.result = "Ok") =>
          /\ last'.who \in AccountId
          /\ last'.report_id \in DOMAIN WasteDataMap'
          /\ WasteDataMap'[last'.report_id].reporter = last'.who
          /\ <<"Reported", last'.report_id>> \in DOMAIN WasteDataByStatus'
          /\ WasteDataByStatus'[<<"Reported", last'.report_id>>].reporter = last'.who
     /\ \A id \in DOMAIN WasteDataMap :
          /\ id \in DOMAIN WasteDataMap'
          /\ WasteDataMap'[id].reporter = WasteDataMap[id].reporter
          /\ \A k \in DOMAIN WasteDataByStatus' :
               k[2] = id => WasteDataByStatus'[k].reporter = WasteDataMap[id].reporter]_vars

\* A report was updated twice by someone other than its reporter and keeps
\* its reporter in both maps.
C10_Witness ==
  /\ LastOk("update_waste_status")
  /\ last.old_status \notin {"Reported", last.new_status}
  /\ Len(events) = 3
  /\ events[1] = WasteDataCreated(last.report_id, WasteDataMap[last.report_id].reporter)
  /\ events[2].operator # events[1].reporter
  /\ last.who # events[1].reporter
  /\ WasteDataByStatus[<<last.new_status, last.report_id>>].reporter = events[1].reporter

\* The keys of the Status Index under one status.
Bucket(index, status) == {k \in DOMAIN index : k[1] = status}

\* C11 (creation result): a successful create_waste_data stores under the
\* newly allocated id a record with status Reported, report_id that id, the
\* caller-supplied waste_type, waste_amount and location, and the caller as
\* reporter; the same record is under (Reported, id) in the index; and on
\* the empty store the id is 1 and the Reported bucket holds exactly that
\* one record.
C11_CreationResult ==
  [][(last'.op = "create_waste_data" /\ last'.result = "Ok") =>
       LET id == last'.report_id
           rec == [report_id |-> id,
                   waste_type |-> last'.args[1],
                   waste_amount |-> last'.args[2],
                   status |-> "Reported",
                   location_x |-> last'.args[3],
                   location_y |-> last'.args[4],
                   reporter |-> last'.who]
       IN /\ id \notin DOMAIN WasteDataMap
          /\ id \in DOMAIN WasteDataMap'
          /\ WasteDataMap'[id] = rec
          /\ <<"Reported", id>> \in DOMAIN WasteDataByStatus'
          /\ WasteDataByStatus'[<<"Reported", id>>] = rec
          /\ (WasteDataCount = 0 /\ WasteDataMap = <<>> /\ WasteDataByStatus = <<>>) =>
               /\ id = 1
               /\ Bucket(WasteDataByStatus', "Reported") = {<<"Reported", 1>>}]_vars

\* The first create on the empty store, by alice, with one of the argument
\* tuples: id 1, and the store and the index hold that one record.
C11_Witness ==
  /\ LastOk("create_waste_data")
  /\ last.who = "alice"
  /\ last.args = <<1, 100, 5, 6>>
  /\ last.report_id = 1
  /\ DOMAIN WasteDataMap = {1}
  /\ DOMAIN WasteDataByStatus = {<<"Reported", 1>>}
  /\ Len(events) = 1

\* C12 (status move): after a successful update_waste_status(id, new_status)
\* of a report whose status was old_status # new_status, the WasteDataMap
\* record of id has status new_status, WasteDataByStatus has no entry at
\* (old_status, id) and has at (new_status, id) the updated record, with the
\* reporter the report had before.
C12_StatusMove ==
  [][(/\ last'.op = "update_waste_status"
      /\ last'.result = "Ok"
      /\ last'.report_id \in DOMAIN WasteDataMap
      /\ WasteDataMap[last'.report_id].status # last'.new_status) =>
       LET id == last'.report_id
           old_status == WasteDataMap[id].status
           new_status == last'.new_status
       IN /\ id \in DOMAIN WasteDataMap'
          /\ WasteDataMap'[id].status = new_status
          /\ <<old_status, id>> \notin DOMAIN WasteDataByStatus'
          /\ <<new_status, id>> \in DOMAIN WasteDataByStatus'
          /\ WasteDataByStatus'[<<new_status, id>>] = WasteDataMap'[id]
          /\ WasteDataByStatus'[<<new_status, id>>].reporter = WasteDataMap[id].reporter]_vars

\* Report 1, created by alice, was moved from Reported to Collected by bob:
\* the Reported bucket is empty and the Collected bucket holds the report.
C12_Witness ==
  /\ LastOk("update_waste_status")
  /\ last.who = "bob"
  /\ last.report_id = 1
  /\ last.old_status = "Reported"
  /\ last.new_status = "Collected"
  /\ events = <<WasteDataCreated(1, "alice"), WasteStatusUpdated(1, "bob")>>
  /\ Bucket(WasteDataByStatus, "Reported") = {}
  /\ Bucket(WasteDataByStatus, "Collected") = {<<"Collected", 1>>}
  /\ WasteDataByStatus[<<"Collected", 1>>].reporter = "alice"

\* C13 (DuplicateReport is unreachable): in every reachable state the id
\* that a create would allocate, count + 1, has no entry in WasteDataMap, so
\* no create_waste_data call, by any origin with any arguments, returns
\* DuplicateReport, and none has.
C13_NoDuplicateReport ==
  /\ WasteDataCount + 1 \notin DOMAIN WasteDataMap
  /\ \A origin \in Origin, a \in CreateArgs :
       create_body(Store, origin, a[1], a[2], a[3], a[4]).result # "DuplicateReport"
  /\ last.result # "DuplicateReport"

\* A second report was created after the first one had been updated: the
\* check for a vacant id passed with a report already stored.
C13_Witness ==
  /\ LastOk("create_waste_data")
  /\ last.report_id = 2
  /\ Len(events) = 3
  /\ events[2].event = "WasteStatusUpdated"
  /\ DOMAIN WasteDataMap = {1, 2}

\* C14 (frame of update_waste_status): a successful update_waste_status
\* changes only the status field of the record with that id, in both maps
\* (report_id, waste_type, waste_amount, location_x, location_y and reporter
\* stay); every record of another id is unchanged in WasteDataMap and in
\* WasteDataByStatus; and WasteDataCount is unchanged.
C14_UpdateFrame ==
  [][(/\ last'.op = "update_waste_status"
      /\ last'.result = "Ok"
      /\ last'.report_id \in DOMAIN WasteDataMap) =>
       LET id == last'.report_id IN
       /\ WasteDataCount' = WasteDataCount
       /\ DOMAIN WasteDataMap' = DOMAIN WasteDataMap
       /\ \A i \in DOMAIN WasteDataMap \ {id} : WasteDataMap'[i] = WasteDataMap[i]
       /\ WasteDataMap' = [WasteDataMap EXCEPT ![id].status = WasteDataMap'[id].status]
       /\ \A k \in DOMAIN WasteDataByStatus :
            k[2] # id => (/\ k \in DOMAIN WasteDataByStatus'
                          /\ WasteDataByStatus'[k] = WasteDataByStatus[k])
       /\ \A k \in DOMAIN WasteDataByStatus' :
            IF k[2] # id
            THEN k \in DOMAIN WasteDataByStatus
            ELSE WasteDataByStatus'[k] =
                   [WasteDataMap[id] EXCEPT !.status = WasteDataByStatus'[k].status]]_vars

\* Two reports are stored, both were Reported, and the last call moved one
\* of them: the other is still Reported, in the map and in the index.
C14_Witness ==
  /\ LastOk("update_waste_status")
  /\ last.old_status = "Reported"
  /\ last.new_status = "Transported"
  /\ DOMAIN WasteDataMap = {1, 2}
  /\ \E other \in {1, 2} \ {last.report_id} :
       /\ WasteDataMap[other].status = "Reported"
       /\ <<"Reported", other>> \in DOMAIN WasteDataByStatus
       /\ WasteDataMap[other].waste_type # WasteDataMap[last.report_id].waste_type

\* C15 (unconstrained transitions): in every reachable state, for every
\* stored report (whatever its status), every target status and every signed
\* caller (not only the reporter), update_waste_status returns Ok and leaves
\* the report with the target status; no transition is rejected, backward
\* moves included.
C15_AnyTransition ==
  \A origin \in SignedOrigin, id \in DOMAIN WasteDataMap, target \in WasteStatus :
    LET out == update_body(Store, origin, id, target) IN
    /\ out.result = "Ok"
    /\ id \in DOMAIN out.st.map
    /\ out.st.map[id].status = target
    /\ Commit(Store, out) = out.st
    /\ LastOk("update_waste_status") =>
         (/\ last.report_id \in DOMAIN WasteDataMap
          /\ WasteDataMap[last.report_id].status = last.new_status)

\* A backward move by someone other than the reporter: the report had been
\* set to Utilized and the last call set it back to Reported.
C15_Witness ==
  /\ LastOk("update_waste_status")
  /\ last.old_status = "Utilized"
  /\ last.new_status = "Reported"
  /\ last.who # WasteDataMap[last.report_id].reporter
  /\ WasteDataMap[last.report_id].status = "Reported"
  /\ <<"Reported", last.report_id>> \in DOMAIN WasteDataByStatus

\* The number of events a call deposited.
Deposits(trace) == Len(SelectSeq(trace, LAMBDA x : x = "deposit_event"))

\* The storage writes of a call.
Writes(trace) ==
  SelectSeq(trace, LAMBDA x : x \in {"WasteDataCount::put", "WasteDataMap::put",
                                     "WasteDataByStatus::remove",
                                     "WasteDataByStatus::insert"})

\* C16 (event emission): a successful create_waste_data deposits exactly one
\* event, WasteDataCreated with the new report id and the caller as
\* reporter; a successful update_waste_status deposits exactly one event,
\* WasteStatusUpdated with the target report id and the caller as operator;
\* the event is deposited after every storage write of the call; and a
\* failed call deposits no event.
C16_EventEmission ==
  [][/\ (last'.op = "create_waste_data" /\ last'.result = "Ok") =>
          /\ events' = Append(events, WasteDataCreated(last'.report_id, last'.who))
          /\ last'.report_id \in DOMAIN WasteDataMap' \ DOMAIN WasteDataMap
     /\ (last'.op = "update_waste_status" /\ last'.result = "Ok") =>
          events' = Append(events, WasteStatusUpdated(last'.report_id, last'.who))
     /\ last'.result = "Ok" =>
          /\ Deposits(last'.trace) = 1
          /\ Writes(last'.trace) # <<>>
          /\ last'.trace[Len(last'.trace)] = "deposit_event"
     /\ last'.result # "Ok" =>
          /\ events' = events
          /\ Deposits(last'.trace) = 0]_vars

\* The log holds one event of each kind, for report 1 created by alice and
\* updated by bob, and the last call, a failed one, added nothing to it.
C16_Witness ==
  /\ events = <<WasteDataCreated(1, "alice"), WasteStatusUpdated(1, "bob")>>
  /\ last.result \in {"BadOrigin", "ReportNotFound"}
  /\ WasteDataMap[1].reporter = "alice"

\* The positions of the accesses of a trace that are in a set.
Positions(trace, accesses) == {i \in 1..Len(trace) : trace[i] \in accesses}

\* Every position of p comes before every position of q.
AllBefore(p, q) == \A i \in p, j \in q : i < j

MapWrites(trace) == Positions(trace, {"WasteDataMap::put"})

IndexWritePositions(trace) ==
  Positions(trace, {"WasteDataByStatus::remove", "WasteDataByStatus::insert"})

EventPositions(trace) == Positions(trace, {"deposit_event"})

C18_DenseIds ==
  /\ DOMAIN WasteDataMap = 1..WasteDataCount
  /\ Cardinality(DOMAIN WasteDataMap) = WasteDataCount
  /\ Cardinality(DOMAIN WasteDataByStatus) = WasteDataCount

\* The counter is at its maximum with every id stored, after a call to
\* update_waste_status for the unused id 0 failed.
C18_Witness ==
  /\ WasteDataCount = U64Max
  /\ DOMAIN WasteDataMap = 1..U64Max
  /\ {k[2] : k \in DOMAIN WasteDataByStatus} = 1..U64Max
  /\ last.op = "update_waste_status"
  /\ last.result = "ReportNotFound"

\* C19 (frame of create_waste_data): a successful create_waste_data adds
\* exactly one entry to WasteDataMap and exactly one to WasteDataByStatus,
\* both for the new id, and leaves every entry that existed before (every
\* other id, under every status) unchanged.
C19_CreateFrame ==
  [][(last'.op = "create_waste_data" /\ last'.result = "Ok") =>
       LET id == last'.report_id IN
       /\ id \notin DOMAIN WasteDataMap
       /\ DOMAIN WasteDataMap' = DOMAIN WasteDataMap \cup {id}
       /\ \A i \in DOMAIN WasteDataMap : WasteDataMap'[i] = WasteDataMap[i]
       /\ IndexKeysOf(id) = {}
       /\ DOMAIN WasteDataByStatus' = DOMAIN WasteDataByStatus \cup {<<"Reported", id>>}
       /\ \A k \in DOMAIN WasteDataByStatus :
            WasteDataByStatus'[k] = WasteDataByStatus[k]]_vars

\* A second report was created while the first one was stored under another
\* status than Reported, and the first one is still there.
C19_Witness ==
  /\ LastOk("create_waste_data")
  /\ last.report_id = 2
  /\ 1 \in DOMAIN WasteDataMap
  /\ WasteDataMap[1].status = "Utilized"
  /\ DOMAIN WasteDataByStatus = {<<"Utilized", 1>>, <<"Reported", 2>>}

\* C20 (key/field consistency): every record stored in WasteDataMap under
\* key k has report_id k, and every record stored in WasteDataByStatus under
\* key (s, k) has report_id k and status s.
C20_KeyFieldConsistency ==
  /\ \A k \in DOMAIN WasteDataMap : WasteDataMap[k].report_id = k
  /\ \A k \in DOMAIN WasteDataByStatus :
       /\ WasteDataByStatus[k].report_id = k[2]
       /\ WasteDataByStatus[k].status = k[1]

\* Two reports are stored under the keys 1 and 2; the second was moved out
\* of Reported and the first was not.
C20_Witness ==
  /\ DOMAIN WasteDataMap = {1, 2}
  /\ \E s \in WasteStatus \ {"Reported"} :
       DOMAIN WasteDataByStatus = {<<"Reported", 1>>, <<s, 2>>}

====
